---- MODULE Spec2Model ----
(***************************************************************************)
(* NoteableClient (origami/client.py): the RTU websocket client.  The      *)
(* model covers the tracker registry (transaction_callbacks and            *)
(* type_callbacks, channel -> key -> LifoQueue), the wrapped callable of   *)
(* every tracker, the _process_messages loop, the request operations and   *)
(* the context manager (__aenter__ / __aexit__).                           *)
(*                                                                         *)
(* asyncio runs one task at a time: a task keeps the processor until it    *)
(* awaits something that is not ready.  The steps of the model are the     *)
(* stretches of code between two such suspension points; while the         *)
(* message loop is between two firings of one message no other task runs.  *)
(***************************************************************************)
EXTENDS Integers, Sequences, FiniteSets, TLC

\* ---------------------------------------------------------------- bounds
\* calls of public operations in one run (__aenter__, the request operations,
\* register_message_callback); each creates at most one tracker
MaxCalls == 3
\* cap on tracker.count, a counter the code never bounds
MaxCount == 2

\* ------------------------------------------------------------- constants
Channels == {"system", "files/abc"}
FileChannel == "files/abc"
RTU_ERROR_HARD_MESSAGE_TYPES == {"permission_denied"}
\* one event outside the hard-error set, and the hard-error events
Events == {"subscribe_reply"} \cup RTU_ERROR_HARD_MESSAGE_TYPES
\* message_type=None / transaction_id=None of register_message_callback
NoType == "None"
NoTid == 0
\* uuid4() of the n-th tracker created by a request operation
uuid4(n) == n
\* a transaction id chosen by a caller of register_message_callback
UserTid == MaxCalls + 1
Tids == 1..(MaxCalls + 1)
ErrorTexts == {"denied"}
AuthFailed == "Failed to authenticate websocket session"
HandlerFailed == "handler failed"
Principal == "user"
NoUser == "None"
\* from_version_id=None of subscribe_file, and the version ids there are
NoVersion == "None"
Versions == {"v1", "v2"}
\* What subscribe_file is given as its file: the id itself (a UUID, which has
\* no attribute current_version_id) or a NotebookFile with id and
\* current_version_id, which may be None.
FileId == "abc"
Files ==
    {[kind |-> "UUID", id |-> FileId, current_version_id |-> NoVersion]}
    \cup {[kind |-> "NotebookFile", id |-> FileId, current_version_id |-> v] :
            v \in {NoVersion, "v1"}}
\* files_channel, lines 446-448
files_channel(file_id) == "files/" \o file_id

\* ------------------------------------------------------------- messages
\* What rtu_socket.recv() returns: a binary frame, a text that is neither a
\* reply nor a request, or an envelope {channel, event, transaction_id, data}.
\* data.success and data.message are the two fields of data the client reads.
NoMsg == [channel |-> "", event |-> "", transaction_id |-> NoTid,
          success |-> FALSE, message |-> ""]
Messages ==
    {[channel |-> c, event |-> e, transaction_id |-> t, success |-> s,
      message |-> ""] :
        c \in Channels, e \in Events \ RTU_ERROR_HARD_MESSAGE_TYPES,
        t \in Tids \cup {NoTid}, s \in BOOLEAN}
    \cup
    {[channel |-> c, event |-> e, transaction_id |-> t, success |-> FALSE,
      message |-> x] :
        c \in Channels, e \in RTU_ERROR_HARD_MESSAGE_TYPES,
        t \in Tids \cup {NoTid}, x \in ErrorTexts}
\* A frame: bytes, or a text with the JSON of a reply, of a request, or of
\* neither.  body: the envelope the payload spells out; for bytes and for a
\* text that is neither, what a decoder that let it pass would make of it.
Frames ==
    {[kind |-> k, body |-> m] :
        k \in {"bytes", "invalid", "reply", "request"}, m \in Messages}

\* ---------------------------------------------------------------- state
VARIABLES
    rtu_socket,             \* "None", "open", or "broken" (the peer is gone)
    process_task_loop,      \* "None" or "Task"
    user,                   \* the authenticated principal
    subscriptions,          \* set of channels
    type_callbacks,         \* <<channel, message_type>> -> LifoQueue of trackers
    transaction_callbacks,  \* <<channel, transaction_id>> -> LifoQueue of trackers
    trackers,               \* every CallbackTracker created, by identity
    loop,                   \* where the _process_messages task stands
    sent,                   \* the requests handed to rtu_socket.send
    lastCall,               \* the latest call of a public operation
    ncalls,                 \* how many calls were made
    ghost,                  \* per tracker: history the claims speak about
    fired,                  \* trackers fired for the message being dispatched
    snapshot,               \* the two matching buckets when its dispatch began
    confirmed               \* channels with a successful subscribe reply
                            \* dispatched since the last connect

vars == <<rtu_socket, process_task_loop, user, subscriptions, type_callbacks,
          transaction_callbacks, trackers, loop, sent, lastCall, ncalls, ghost,
          fired, snapshot, confirmed>>

registry == <<type_callbacks, transaction_callbacks>>
history == <<ghost, fired, snapshot, confirmed>>

\* ------------------------------------------------------------ LifoQueue
\* A faulty variant of IsText: the isinstance test is missing.
IsTextAny(frame) == TRUE

\* isinstance(msg, str), line 328
IsText(frame) == frame.kind # "bytes"
\* GenericRTUReply.parse_raw, then GenericRTURequest.parse_raw (331-344): a
\* ValidationError from both when the text is neither envelope.
ValidationError(frame) == frame.kind = "invalid"
parse_raw(frame) == frame.body

\* A faulty variant of get: queue.Queue in place of queue.LifoQueue, the oldest
\* item first.
get_fifo(q) == <<q[1], SubSeq(q, 2, Len(q))>>

\* queue.LifoQueue: put_nowait adds at the end, get(block=False) takes from the
\* end.  get: <<the item, the queue without it>>.
put_nowait(q, x) == Append(q, x)
get(q) == <<q[Len(q)], SubSeq(q, 1, Len(q) - 1)>>

EmptyRegistry(keys) == [k \in keys |-> <<>>]
TypeKeys == Channels \X (Events \cup {NoType})
TransactionKeys == Channels \X Tids

\* --------------------------------------------------------------- Future
Future == [state |-> "PENDING", result |-> NoMsg, exception |-> ""]
set_result(fut, resp) == [state |-> "FINISHED", result |-> resp, exception |-> ""]
set_exception(fut, resp, e) == [state |-> "FINISHED", result |-> resp, exception |-> e]
cancel(fut) == [fut EXCEPT !.state = "CANCELLED"]

\* ------------------------------------------------------------------ Init
IdleLoop == [pc |-> "none", res |-> NoMsg, phase |-> "none", cur |-> 0]
NoCall == [op |-> "none", args |-> <<>>, outcome |-> "none"]

Init ==
    /\ rtu_socket = "None"
    /\ process_task_loop = "None"
    /\ user = NoUser
    /\ subscriptions = {"system"}
    /\ type_callbacks = EmptyRegistry(TypeKeys)
    /\ transaction_callbacks = EmptyRegistry(TransactionKeys)
    /\ trackers = <<>>
    /\ loop = IdleLoop
    /\ sent = <<>>
    /\ lastCall = NoCall
    /\ ncalls = 0
    /\ ghost = <<>>
    /\ fired = <<>>
    /\ snapshot = <<>>
    /\ confirmed = {}

\* Other tasks run only while the message loop is suspended (in recv, or in a
\* handler that awaits) or is gone.
Yielded == loop.pc \notin {"id_lifo", "type_lifo", "sleep"}

\* A call of a public operation, and how it went on at once: it raised, or
\* it now waits on its tracker ("waiting").
Called(op, args, outcome) ==
    /\ ncalls < MaxCalls
    /\ ncalls' = ncalls + 1
    /\ lastCall' = [op |-> op, args |-> args, outcome |-> outcome]

\* ------------------------------------------- register_message_callback
NewTracker(callable, channel, message_type, transaction_id, once) ==
    [once |-> once, count |-> 0, callable |-> callable, channel |-> channel,
     message_type |-> message_type, transaction_id |-> transaction_id,
     next_trigger |-> Future]

\* A faulty variant of Enqueue: a tracker with a transaction id is put into
\* the queue of its message type as well.
EnqueueBoth(tracker, id, tcb, xcb) ==
    IF tracker.transaction_id # NoTid
    THEN <<[tcb EXCEPT ![<<tracker.channel, tracker.message_type>>] =
                put_nowait(@, id)],
           [xcb EXCEPT ![<<tracker.channel, tracker.transaction_id>>] =
                put_nowait(@, id)]>>
    ELSE <<[tcb EXCEPT ![<<tracker.channel, tracker.message_type>>] =
                put_nowait(@, id)], xcb>>

\* The put_nowait of lines 300-305 and 309-312: the bucket is chosen by
\* whether the tracker has a transaction id.  Result: <<type, transaction>>.
Enqueue(tracker, id, tcb, xcb) ==
    IF tracker.transaction_id # NoTid
    THEN <<tcb, [xcb EXCEPT ![<<tracker.channel, tracker.transaction_id>>] =
                     put_nowait(@, id)]>>
    ELSE <<[tcb EXCEPT ![<<tracker.channel, tracker.message_type>>] =
                put_nowait(@, id)], xcb>>

\* History of one tracker: messages that matched it while it was queued, runs
\* of its handler, successful set_result / set_exception calls, runs of
\* wrapped_callable that ended, the Future it resolved last, and whether some
\* caller waits on its next_trigger.
NewGhost(awaited) ==
    [matched |-> 0, invoked |-> 0, resolved |-> 0, finished |-> 0,
     last |-> Future, awaited |-> awaited]

register_message_callback(callable, channel, message_type, transaction_id, once, awaited) ==
    LET id == Len(trackers) + 1
        tracker == NewTracker(callable, channel, message_type, transaction_id, once)
        reg == Enqueue(tracker, id, type_callbacks, transaction_callbacks)
    IN  /\ trackers' = Append(trackers, tracker)
        /\ ghost' = Append(ghost, NewGhost(awaited))
        /\ type_callbacks' = reg[1]
        /\ transaction_callbacks' = reg[2]

\* <Reply schema>.register_callback(client, req, fn) of origami/types/rtu.py:
\* a once tracker keyed by the request's channel and transaction id.
register_callback(callable, channel, transaction_id, awaited) ==
    register_message_callback(callable, channel, NoType, transaction_id, TRUE,
                              awaited)

\* A caller registers a handler of its own.
UserCallables == {"ok", "raise", "slow"}
UserKeys ==
    {<<NoType, UserTid>>, <<"subscribe_reply", NoTid>>, <<"subscribe_reply", UserTid>>}
RegisterMessageCallback(callable, channel, key, once) ==
    /\ Yielded
    /\ register_message_callback(callable, channel, key[1], key[2], once, FALSE)
    /\ Called("register_message_callback", <<>>, "returned")
    /\ UNCHANGED <<rtu_socket, process_task_loop, user, subscriptions, loop, sent,
                   fired, snapshot, confirmed>>

\* ------------------------------------------------------ request operations
RequestMsg(event, channel, transaction_id, delta_type) ==
    [event |-> event, channel |-> channel, transaction_id |-> transaction_id,
     delta_type |-> delta_type, from_version_id |-> NoVersion]

\* send_rtu_request, lines 368-372 (behind _requires_ws_context): the request
\* goes to the socket, or the socket raises because the peer is gone.
send_rtu_request(op, args, req) ==
    IF rtu_socket = "open"
    THEN /\ sent' = Append(sent, req)
         /\ Called(op, args, "waiting")
    ELSE /\ sent' = sent
         /\ Called(op, args, "ConnectionClosed")

\* _requires_ws_context, lines 80-89
RequiresWsContext(op, args) ==
    /\ rtu_socket = "None"
    /\ Called(op, args, "ValueError")
    /\ UNCHANGED <<rtu_socket, process_task_loop, user, subscriptions,
                   type_callbacks, transaction_callbacks, trackers, loop, sent,
                   ghost, fired, snapshot, confirmed>>

\* A faulty variant of RegisterAndSend: the operation lacks the
\* _requires_ws_context decorator and registers its tracker whatever the socket.
RegisterAndSendUndecorated(op, args, callable, channel, event, delta_type) ==
    LET tid == uuid4(Len(trackers) + 1)
    IN  /\ register_callback(callable, channel, tid, rtu_socket = "open")
        /\ send_rtu_request(op, args, RequestMsg(event, channel, tid, delta_type))
        /\ UNCHANGED <<rtu_socket, process_task_loop, user, subscriptions, loop,
                       fired, snapshot, confirmed>>

\* The pattern of every request operation: register the reply's tracker under
\* a fresh transaction id, send the request, then wait on tracker.next_trigger.
RegisterAndSend(op, args, callable, channel, event, delta_type) ==
    LET tid == uuid4(Len(trackers) + 1)
    IN  /\ rtu_socket # "None"
        /\ register_callback(callable, channel, tid, rtu_socket = "open")
        /\ send_rtu_request(op, args, RequestMsg(event, channel, tid, delta_type))
        /\ UNCHANGED <<rtu_socket, process_task_loop, user, subscriptions, loop,
                       fired, snapshot, confirmed>>

\* authenticate, lines 374-394
Authenticate ==
    /\ Yielded
    /\ \/ RequiresWsContext("authenticate", <<>>)
       \/ RegisterAndSend("authenticate", <<>>, "authorized", "system",
                          "authentication_request", "None")

\* ping_rtu, lines 396-416
PingRtu ==
    /\ Yielded
    /\ \/ RequiresWsContext("ping_rtu", <<>>)
       \/ RegisterAndSend("ping_rtu", <<>>, "pong", "system", "ping_request", "None")

\* _gen_subscription_request and subscribe_channel, lines 418-444
\* The tracker comes from register_message_callback itself, with its default
\* once=True and a fresh uuid4().
SubscribeChannel(channel) ==
    LET tid == uuid4(Len(trackers) + 1)
    IN  /\ Yielded
        /\ \/ RequiresWsContext("subscribe_channel", <<channel>>)
           \/ /\ rtu_socket # "None"
              /\ register_message_callback("process_subscribe", channel, NoType,
                                           tid, TRUE, rtu_socket = "open")
              /\ send_rtu_request("subscribe_channel", <<channel>>,
                                  RequestMsg("subscribe_request", channel, tid, "None"))
              /\ UNCHANGED <<rtu_socket, process_task_loop, user, subscriptions,
                             loop, fired, snapshot, confirmed>>

\* subscribe_file, lines 450-480.  With a NotebookFile, from_version_id is
\* replaced by file.current_version_id (line 462); with anything else line 466
\* reads file.current_version_id too, which a UUID does not have.
\* req.data['from_version_id'] is set when the value is not None (473-474).
SubscribeFile(file, from_version_id) ==
    LET tid == uuid4(Len(trackers) + 1)
        args == <<file.kind, from_version_id>>
        channel == files_channel(file.id)
    IN  /\ Yielded
        /\ \/ RequiresWsContext("subscribe_file", args)
           \/ /\ rtu_socket # "None"
              /\ file.kind # "NotebookFile"
              /\ Called("subscribe_file", args, "AttributeError")
              /\ UNCHANGED <<rtu_socket, process_task_loop, user, subscriptions,
                             type_callbacks, transaction_callbacks, trackers, loop,
                             sent, ghost, fired, snapshot, confirmed>>
           \/ /\ rtu_socket # "None"
              /\ file.kind = "NotebookFile"
              /\ register_message_callback("process_subscribe", channel, NoType,
                                           tid, TRUE, rtu_socket = "open")
              /\ send_rtu_request("subscribe_file", args,
                    [RequestMsg("subscribe_request", channel, tid, "None")
                        EXCEPT !.from_version_id = file.current_version_id])
              /\ UNCHANGED <<rtu_socket, process_task_loop, user, subscriptions,
                             loop, fired, snapshot, confirmed>>

\* send_rtu_request called by the client's user, lines 368-372
SendRtuRequest ==
    /\ Yielded
    /\ \/ RequiresWsContext("send_rtu_request", <<>>)
       \/ /\ rtu_socket = "open"
          /\ sent' = Append(sent, RequestMsg("ping_request", "system", NoTid, "None"))
          /\ Called("send_rtu_request", <<>>, "returned")
          /\ UNCHANGED <<rtu_socket, process_task_loop, user, subscriptions,
                         type_callbacks, transaction_callbacks, trackers, loop,
                         ghost, fired, snapshot, confirmed>>
       \/ /\ rtu_socket = "broken"
          /\ Called("send_rtu_request", <<>>, "ConnectionClosed")
          /\ UNCHANGED <<rtu_socket, process_task_loop, user, subscriptions,
                         type_callbacks, transaction_callbacks, trackers, loop,
                         sent, ghost, fired, snapshot, confirmed>>

\* replace_cell_contents, lines 482-503
ReplaceCellContents ==
    /\ Yielded
    /\ \/ RequiresWsContext("replace_cell_contents", <<>>)
       \/ RegisterAndSend("replace_cell_contents", <<>>, "check_success",
                          FileChannel, "new_delta_request", "cell_contents")

\* A faulty variant of the asserts of execute: the third assert is missing.
ExecuteAssertsTwo(cell_id, before_id, after_id) ==
    /\ ~before_id \/ ~after_id
    /\ ~cell_id \/ ~after_id

\* execute, lines 505-543.  cell_id, before_id, after_id: whether each is set.
ExecuteAsserts(cell_id, before_id, after_id) ==
    /\ ~before_id \/ ~after_id
    /\ ~cell_id \/ ~after_id
    /\ ~cell_id \/ ~before_id

Execute(cell_id, before_id, after_id) ==
    LET args == <<cell_id, before_id, after_id>>
    IN  /\ Yielded
        /\ \/ RequiresWsContext("execute", args)
           \/ /\ rtu_socket # "None"
              /\ ~ExecuteAsserts(cell_id, before_id, after_id)
              /\ Called("execute", args, "AssertionError")
              /\ UNCHANGED <<rtu_socket, process_task_loop, user, subscriptions,
                             type_callbacks, transaction_callbacks, trackers, loop,
                             sent, ghost, fired, snapshot, confirmed>>
           \/ /\ ExecuteAsserts(cell_id, before_id, after_id)
              /\ RegisterAndSend("execute", args, "check_success", FileChannel,
                                 "new_delta_request", "cell_execute")

\* ------------------------------------------------------ context manager
\* __aenter__, lines 206-226: open the socket, start the message loop and
\* authenticate (the authentication request is sent before the first await
\* that gives the processor away).
Connect ==
    /\ Yielded
    /\ rtu_socket = "None"
    /\ rtu_socket' = "open"
    /\ process_task_loop' = "Task"
    /\ loop' = [IdleLoop EXCEPT !.pc = "recv"]
    /\ register_callback("authorized", "system", uuid4(Len(trackers) + 1), TRUE)
    /\ sent' = Append(sent, RequestMsg("authentication_request", "system",
                                       uuid4(Len(trackers) + 1), "None"))
    /\ Called("__aenter__", <<>>, "waiting")
    /\ fired' = <<>>
    /\ snapshot' = <<>>
    /\ confirmed' = {}
    /\ UNCHANGED <<user, subscriptions>>

\* A faulty variant of __aexit__: transaction_callbacks is not replaced.
CloseKeepsTransactions ==
    /\ Yielded
    /\ process_task_loop' = "None"
    /\ loop' = [pc |-> "none", res |-> NoMsg, phase |-> "none", cur |-> 0]
    /\ rtu_socket' = "None"
    /\ subscriptions' = {"system"}
    /\ type_callbacks' = EmptyRegistry(TypeKeys)
    /\ lastCall' = [op |-> "__aexit__", args |-> <<>>, outcome |-> "returned"]
    /\ fired' = <<>>
    /\ snapshot' = <<>>
    /\ confirmed' = {}
    /\ UNCHANGED <<user, trackers, sent, ghost, ncalls, transaction_callbacks>>

\* __aexit__, lines 228-245
Close ==
    /\ Yielded
    /\ process_task_loop' = "None"
    /\ loop' = IdleLoop
    /\ rtu_socket' = "None"
    /\ subscriptions' = {"system"}
    /\ type_callbacks' = EmptyRegistry(TypeKeys)
    /\ transaction_callbacks' = EmptyRegistry(TransactionKeys)
    /\ lastCall' = [op |-> "__aexit__", args |-> <<>>, outcome |-> "returned"]
    /\ UNCHANGED ncalls
    /\ fired' = <<>>
    /\ snapshot' = <<>>
    /\ confirmed' = {}
    /\ UNCHANGED <<user, trackers, sent, ghost>>

\* The peer or the network closes the connection.
TransportFailure ==
    /\ Yielded
    /\ rtu_socket = "open"
    /\ rtu_socket' = "broken"
    /\ UNCHANGED <<process_task_loop, user, subscriptions, type_callbacks,
                   transaction_callbacks, trackers, loop, sent, lastCall, ncalls, ghost,
                   fired, snapshot, confirmed>>

\* A faulty variant of the timeout: the tracker that timed out is also taken
\* out of its queue.
WaitForTimeoutEvicts(id) ==
    LET key == <<trackers[id].channel, trackers[id].transaction_id>>
    IN  /\ Yielded
        /\ ghost[id].awaited
        /\ trackers[id].next_trigger.state = "PENDING"
        /\ trackers' = [trackers EXCEPT ![id].next_trigger = cancel(@)]
        /\ transaction_callbacks' =
               [transaction_callbacks EXCEPT ![key] = SelectSeq(@, LAMBDA x : x # id)]
        /\ UNCHANGED <<rtu_socket, process_task_loop, user, subscriptions,
                       type_callbacks, loop, sent, lastCall, ncalls, ghost, fired,
                       snapshot, confirmed>>

\* asyncio.wait_for(tracker.next_trigger, timeout) runs out of time: wait_for
\* cancels the Future it waits on and raises TimeoutError in the caller.
WaitForTimeout(id) ==
    /\ Yielded
    /\ ghost[id].awaited
    /\ trackers[id].next_trigger.state = "PENDING"
    /\ trackers' = [trackers EXCEPT ![id].next_trigger = cancel(@)]
    /\ UNCHANGED <<rtu_socket, process_task_loop, user, subscriptions,
                   type_callbacks, transaction_callbacks, loop, sent, lastCall,
                   ncalls, ghost, fired, snapshot, confirmed>>

\* --------------------------------------------------------- handlers
\* A faulty variant of HandlerRaises: process_subscribe raises on
\* success=false, as authorized does.
HandlerRaisesOnFailure(callable, resp) ==
    \/ callable = "raise"
    \/ callable \in {"authorized", "process_subscribe"} /\ ~resp.success

\* authorized (379-385) raises on success=false; a caller's handler may raise.
HandlerRaises(callable, resp) ==
    \/ callable = "raise"
    \/ callable = "authorized" /\ ~resp.success

HandlerException(callable) ==
    IF callable = "authorized" THEN AuthFailed ELSE HandlerFailed

\* A faulty variant of process_subscribe: the channel is added whatever the
\* reply says.
process_subscribe_any(subs, callable, resp) ==
    IF callable = "process_subscribe" THEN subs \cup {resp.channel} ELSE subs

\* process_subscribe, lines 419-424
process_subscribe(subs, callable, resp) ==
    IF callable = "process_subscribe" /\ resp.success
    THEN subs \cup {resp.channel}
    ELSE subs

\* authorized, lines 379-385
authorized(u, callable, resp) ==
    IF callable = "authorized" /\ resp.success THEN Principal ELSE u

\* ---------------------------------------------------- _process_messages
Bucket(cb, key) == IF key \in DOMAIN cb THEN cb[key] ELSE <<>>
\* A faulty variant of IdKey: the queue of the first request on the channel,
\* whatever transaction id the message carries.
IdKeyFirst(res) == <<res.channel, uuid4(1)>>
IdKey(res) == <<res.channel, res.transaction_id>>
TypeKey(res) == <<res.channel, res.event>>
Range(q) == {q[i] : i \in 1..Len(q)}

\* The two "while not lifo.empty()" tests, lines 349 and 355, and the way back
\* to recv: where the loop stands after its tests, given the queue it is at.
\* "id_lifo" / "type_lifo": about to get a tracker from that queue.
Continue(phase, res, tcb, xcb) ==
    IF phase = "id_lifo" /\ Bucket(xcb, IdKey(res)) # <<>>
    THEN [pc |-> "id_lifo", res |-> res, phase |-> "id_lifo", cur |-> 0]
    ELSE IF Bucket(tcb, TypeKey(res)) # <<>>
    THEN [pc |-> "type_lifo", res |-> res, phase |-> "type_lifo", cur |-> 0]
    ELSE [pc |-> "sleep", res |-> res, phase |-> "none", cur |-> 0]

\* ---------------------------------------------------- wrapped_callable
\* The message loop leaves through "except Exception" (363-366).
LoopFailed == [loop EXCEPT !.pc = "failed", !.phase = "none", !.cur = 0]

\* A faulty variant of the await: the handler is started as a task of its own
\* and the loop goes on without waiting for it.
create_task(id, tcb, xcb) == Continue(loop.phase, loop.res, tcb, xcb)

\* "await tracker.callable(res)", lines 352 and 358, when the handler awaits:
\* the loop is suspended until tracker id's handler returns.
AwaitCallable(id, tcb, xcb) == [loop EXCEPT !.pc = "handler", !.cur = id]

\* A subscribe reply that reports success, as the tracker of a subscribe
\* request receives it.
SubscribeConfirmed(tracker, resp) ==
    /\ tracker.callable = "process_subscribe"
    /\ resp.event \notin RTU_ERROR_HARD_MESSAGE_TYPES
    /\ resp.transaction_id = tracker.transaction_id
    /\ resp.success

\* Lines 283, 294, 296 and 297-305: resolve tracker.next_trigger with the
\* Future value fut; a persistent tracker then gets a new Future and goes back
\* into its queue.  Future.set_result / set_exception raise InvalidStateError
\* on a Future that is not pending; nothing catches it before the loop does.
\* trk, gh, tcb, xcb: the trackers, history and registry so far in this step.
Resolve(id, fut, trk, gh, tcb, xcb) ==
    LET tracker == trk[id]
        reg == IF tracker.once THEN <<tcb, xcb>> ELSE Enqueue(tracker, id, tcb, xcb)
    IN  IF tracker.next_trigger.state # "PENDING"
        THEN /\ trackers' = trk
             /\ ghost' = [gh EXCEPT ![id].finished = @ + 1]
             /\ type_callbacks' = tcb
             /\ transaction_callbacks' = xcb
             /\ loop' = LoopFailed
        ELSE /\ trackers' = [trk EXCEPT ![id].next_trigger =
                                 IF tracker.once THEN fut ELSE Future]
             /\ ghost' = [gh EXCEPT ![id].finished = @ + 1,
                                    ![id].resolved = @ + 1,
                                    ![id].last = fut]
             /\ type_callbacks' = reg[1]
             /\ transaction_callbacks' = reg[2]
             /\ loop' = Continue(loop.phase, loop.res, reg[1], reg[2])

HandlerResult(callable, fut, resp) ==
    IF HandlerRaises(callable, resp)
    THEN set_exception(fut, resp, HandlerException(callable))
    ELSE set_result(fut, resp)

\* wrapped_callable(resp) of tracker id, lines 275-305, up to the point where
\* the handler awaits (a "slow" handler) or to its end.  tcb, xcb: the registry
\* after the loop took the tracker out of its queue.
wrapped_callable(id, tcb, xcb) ==
    LET resp == loop.res
        tracker == trackers[id]
        trk == [trackers EXCEPT ![id].count = @ + 1]
        ran == [ghost EXCEPT ![id].invoked = @ + 1]
    IN  /\ tracker.count < MaxCount
        /\ fired' = Append(fired, id)
        /\ IF resp.event \in RTU_ERROR_HARD_MESSAGE_TYPES
           THEN /\ Resolve(id, set_exception(tracker.next_trigger, resp, resp.message),
                           trk, ghost, tcb, xcb)
                /\ UNCHANGED <<subscriptions, user, confirmed>>
           ELSE IF tracker.callable = "slow"
           THEN /\ trackers' = trk
                /\ ghost' = ran
                /\ type_callbacks' = tcb
                /\ transaction_callbacks' = xcb
                /\ loop' = AwaitCallable(id, tcb, xcb)
                /\ UNCHANGED <<subscriptions, user, confirmed>>
           ELSE /\ subscriptions' = process_subscribe(subscriptions, tracker.callable, resp)
                /\ user' = authorized(user, tracker.callable, resp)
                /\ confirmed' = IF SubscribeConfirmed(tracker, resp)
                                THEN confirmed \cup {tracker.channel}
                                ELSE confirmed
                /\ Resolve(id, HandlerResult(tracker.callable, tracker.next_trigger, resp),
                           trk, ran, tcb, xcb)

\* ------------------------------------------------------- the loop's steps
\* Lines 327-346: one frame from the socket.  Bytes and texts that parse as
\* neither envelope are logged and skipped with "continue" (330, 344): the loop
\* is back in recv.  An envelope that finds both queues empty changes nothing;
\* any other starts a dispatch.
Recv(msg) ==
    /\ loop.pc = "recv"
    /\ rtu_socket = "open"
    /\ IF ~IsText(msg) \/ ValidationError(msg)
       THEN /\ loop' = [loop EXCEPT !.phase = "continue"]
            /\ UNCHANGED <<ghost, fired, snapshot>>
       ELSE IF /\ Bucket(transaction_callbacks, IdKey(parse_raw(msg))) = <<>>
               /\ Bucket(type_callbacks, TypeKey(parse_raw(msg))) = <<>>
       THEN UNCHANGED <<loop, ghost, fired, snapshot>>
       ELSE LET res == parse_raw(msg)
                ids == Bucket(transaction_callbacks, IdKey(res))
                types == Bucket(type_callbacks, TypeKey(res))
            IN  /\ loop' = Continue("id_lifo", res, type_callbacks,
                                     transaction_callbacks)
                /\ fired' = <<>>
                /\ snapshot' = <<ids, types>>
                /\ ghost' = [i \in DOMAIN ghost |->
                                IF i \in Range(ids) \cup Range(types)
                                THEN [ghost[i] EXCEPT !.matched = @ + 1]
                                ELSE ghost[i]]
    /\ UNCHANGED <<rtu_socket, process_task_loop, user, subscriptions,
                   type_callbacks, transaction_callbacks, trackers, sent, lastCall,
                   ncalls, confirmed>>

\* Lines 360-362: recv raises ConnectionClosed and the loop ends.
RecvConnectionClosed ==
    /\ loop.pc = "recv"
    /\ rtu_socket = "broken"
    /\ loop' = [IdleLoop EXCEPT !.pc = "closed"]
    /\ UNCHANGED <<rtu_socket, process_task_loop, user, subscriptions,
                   type_callbacks, transaction_callbacks, trackers, sent, lastCall,
                   ncalls, ghost, fired, snapshot, confirmed>>

\* Lines 348-352: while not id_lifo.empty(): get a tracker and await its callable.
ProcessIdLifo ==
    LET key == IdKey(loop.res)
        id_lifo == Bucket(transaction_callbacks, key)
    IN  /\ loop.pc = "id_lifo"
        /\ wrapped_callable(get(id_lifo)[1], type_callbacks,
                    [transaction_callbacks EXCEPT ![key] = get(id_lifo)[2]])
        /\ UNCHANGED <<rtu_socket, process_task_loop, sent, lastCall, ncalls, snapshot>>

\* Lines 353-358: the same over type_lifo; then back to recv.
ProcessTypeLifo ==
    LET key == TypeKey(loop.res)
        type_lifo == Bucket(type_callbacks, key)
    IN  /\ loop.pc = "type_lifo"
        /\ wrapped_callable(get(type_lifo)[1],
                    [type_callbacks EXCEPT ![key] = get(type_lifo)[2]],
                    transaction_callbacks)
        /\ UNCHANGED <<rtu_socket, process_task_loop, sent, lastCall, ncalls, snapshot>>

\* Line 325, after a dispatch: asyncio.sleep(0), then recv again.  What ran
\* for the message dispatched last is forgotten here.
NextIteration ==
    /\ loop.pc = "sleep"
    /\ loop' = [IdleLoop EXCEPT !.pc = "recv"]
    /\ fired' = <<>>
    /\ snapshot' = <<>>
    /\ UNCHANGED <<rtu_socket, process_task_loop, user, subscriptions,
                   type_callbacks, transaction_callbacks, trackers, sent, lastCall,
                   ncalls, ghost, confirmed>>

\* Line 291 returns: the handler the loop awaits has finished.
HandlerReturns ==
    /\ loop.pc = "handler"
    /\ Resolve(loop.cur,
               set_result(trackers[loop.cur].next_trigger, loop.res),
               trackers, ghost, type_callbacks, transaction_callbacks)
    /\ UNCHANGED <<rtu_socket, process_task_loop, user, subscriptions, sent,
                   lastCall, ncalls, fired, snapshot, confirmed>>

\* -------------------------------------------------------------- Next
\* The frames the peer sends: any, with a transaction id that some tracker
\* has, or none (a transaction id no tracker has matches no queue).
Arriving ==
    {f \in Frames : f.body.transaction_id \in
        {NoTid} \cup {trackers[i].transaction_id : i \in DOMAIN trackers}}

Next ==
    \/ Connect
    \/ Close
    \/ TransportFailure
    \/ Authenticate
    \/ PingRtu
    \/ \E c \in Channels \ {"system"} : SubscribeChannel(c)
    \/ \E file \in Files, from_version_id \in {NoVersion, "v2"} :
           SubscribeFile(file, from_version_id)
    \/ SendRtuRequest
    \/ ReplaceCellContents
    \/ \E cell_id, before_id, after_id \in BOOLEAN :
           Execute(cell_id, before_id, after_id)
    \/ \E callable \in UserCallables, key \in UserKeys, once \in BOOLEAN :
           RegisterMessageCallback(callable, FileChannel, key, once)
    \/ \E id \in DOMAIN trackers : WaitForTimeout(id)
    \/ \E msg \in Arriving : Recv(msg)
    \/ RecvConnectionClosed
    \/ ProcessIdLifo
    \/ ProcessTypeLifo
    \/ HandlerReturns
    \/ NextIteration

Spec == Init /\ [][Next]_vars

\* The client used through its request operations only.
NextRequests ==
    \/ Connect
    \/ Close
    \/ TransportFailure
    \/ Authenticate
    \/ PingRtu
    \/ \E c \in Channels \ {"system"} : SubscribeChannel(c)
    \/ \E file \in Files, from_version_id \in {NoVersion, "v2"} :
           SubscribeFile(file, from_version_id)
    \/ SendRtuRequest
    \/ ReplaceCellContents
    \/ \E cell_id, before_id, after_id \in BOOLEAN :
           Execute(cell_id, before_id, after_id)
    \/ \E id \in DOMAIN trackers : WaitForTimeout(id)
    \/ \E msg \in Arriving : Recv(msg)
    \/ RecvConnectionClosed
    \/ ProcessIdLifo
    \/ NextIteration

SpecRequests == Init /\ [][NextRequests]_vars

\* The client used as a dispatcher of handlers its caller registers.
NextCallbacks ==
    \/ Connect
    \/ \E callable \in UserCallables, key \in UserKeys, once \in BOOLEAN :
           RegisterMessageCallback(callable, FileChannel, key, once)
    \/ \E msg \in Arriving : Recv(msg)
    \/ ProcessIdLifo
    \/ ProcessTypeLifo
    \/ HandlerReturns
    \/ NextIteration

SpecCallbacks == Init /\ [][NextCallbacks]_vars

\* The same with the timeout of the call that waits (the authenticate of
\* __aenter__), under the scheduling asyncio gives: a task that is ready to
\* run runs.  The message loop, when it is not suspended, goes on; a timer
\* that has run out fires once the loop that holds the processor gives it
\* away.  No fairness for frames to arrive or for a handler that awaits to
\* return.
NextWaiting ==
    \/ Connect
    \/ \E callable \in UserCallables, key \in UserKeys, once \in BOOLEAN :
           RegisterMessageCallback(callable, FileChannel, key, once)
    \/ \E id \in DOMAIN trackers : WaitForTimeout(id)
    \/ \E msg \in Arriving : Recv(msg)
    \/ ProcessIdLifo
    \/ ProcessTypeLifo
    \/ HandlerReturns
    \/ NextIteration

SpecWaiting ==
    /\ Init
    /\ [][NextWaiting]_vars
    /\ WF_vars(ProcessIdLifo)
    /\ WF_vars(ProcessTypeLifo)
    /\ WF_vars(NextIteration)
    /\ \A id \in 1..MaxCalls :
          WF_vars(id \in DOMAIN trackers /\ WaitForTimeout(id))

\* The same for handlers that return: what a handler awaits (line 291)
\* completes, so the loop suspended in it is resumed.
SpecDispatch ==
    /\ Init
    /\ [][NextWaiting]_vars
    /\ WF_vars(ProcessIdLifo)
    /\ WF_vars(ProcessTypeLifo)
    /\ WF_vars(HandlerReturns)
    /\ WF_vars(NextIteration)
    /\ \A id \in 1..MaxCalls :
          WF_vars(id \in DOMAIN trackers /\ WaitForTimeout(id))

\* ---------------------------------------------------------------- claims
Queued(id) ==
    \/ \E k \in DOMAIN transaction_callbacks : id \in Range(transaction_callbacks[k])
    \/ \E k \in DOMAIN type_callbacks : id \in Range(type_callbacks[k])
\* Tracker id is keyed by a transaction id.
IsTx(id) == trackers[id].transaction_id # NoTid
\* wrapped_callable of tracker id has started and has not ended.
Running(id) == trackers[id].count > ghost[id].finished
TwoOrMore(args) ==
    /\ Len(args) = 3
    /\ (args[1] /\ args[2]) \/ (args[1] /\ args[3]) \/ (args[2] /\ args[3])

\* C1: with several requests outstanding and their replies dispatched in any
\* order, a call resolves only with a message that carries its own transaction
\* id and channel; a message fires only trackers of its own transaction id;
\* every tracker it fires whose wait has not timed out is resolved with that
\* very message; and when its dispatch is over every tracker that was queued
\* under its transaction id has been fired.
C1_RepliesCorrelated ==
    \A id \in DOMAIN trackers :
        LET t == trackers[id]
        IN  t.transaction_id # NoTid =>
              /\ t.next_trigger.state = "FINISHED" =>
                    /\ t.next_trigger.result.transaction_id = t.transaction_id
                    /\ t.next_trigger.result.channel = t.channel
              /\ id \in Range(fired) =>
                    /\ loop.res.transaction_id = t.transaction_id
                    /\ t.next_trigger.state # "CANCELLED" =>
                          /\ t.next_trigger.state = "FINISHED"
                          /\ t.next_trigger.result = loop.res
              /\ (loop.pc = "sleep" /\ id \in Range(snapshot[1])) =>
                    id \in Range(fired)

\* The reply of a later request is dispatched and resolves its call while an
\* earlier request on the same channel still waits for its own.
C1_Witness ==
    \E a, b \in DOMAIN trackers :
        /\ a < b
        /\ ghost[a].awaited /\ ghost[b].awaited
        /\ trackers[a].channel = trackers[b].channel
        /\ trackers[a].next_trigger.state = "PENDING" /\ Queued(a)
        /\ b \in Range(fired)
        /\ trackers[b].next_trigger.state = "FINISHED"
        /\ trackers[b].next_trigger.result.transaction_id = trackers[b].transaction_id

\* C2: a once tracker for which a matching message has been dispatched is out
\* of the registry, has count 1, has run its handler at most once and has had
\* its result slot resolved exactly once.
C2_OnceTrackerResolvedOnce ==
    \A id \in DOMAIN trackers :
        (trackers[id].once /\ ghost[id].finished >= 1) =>
            /\ ~Queued(id)
            /\ trackers[id].count = 1
            /\ ghost[id].invoked <= 1
            /\ ghost[id].resolved = 1
            /\ trackers[id].next_trigger.state = "FINISHED"

\* C3: a persistent tracker runs once for each matching message dispatched
\* (count = N after N messages): it fires at most once for one message, and
\* while no firing of it is under way it is in the registry with a pending
\* result slot.
C3_PersistentRunsOncePerMessage ==
    \A id \in DOMAIN trackers :
        ~trackers[id].once =>
            /\ Cardinality({i \in DOMAIN fired : fired[i] = id}) <= 1
            /\ (~Running(id) /\ loop.pc # "failed") =>
                  /\ trackers[id].next_trigger.state = "PENDING"
                  /\ rtu_socket # "None" => Queued(id)

\* C4: of two trackers that were in the same queue when the dispatch of a
\* message began, the one registered later fires before the one registered
\* earlier: whenever a tracker has fired, every tracker of its queue with a
\* later registration has fired before it.
C4_LaterRegisteredFiresFirst ==
    \A k \in DOMAIN snapshot : \A i \in DOMAIN fired :
        fired[i] \in Range(snapshot[k]) =>
            \A b \in Range(snapshot[k]) :
                b > fired[i] => \E j \in 1..(i - 1) : fired[j] = b

\* Two trackers of one queue have both fired for one message, the later
\* registered first.
C4_Witness ==
    /\ Len(fired) >= 2
    /\ \E k \in DOMAIN snapshot :
        /\ fired[1] \in Range(snapshot[k])
        /\ fired[2] \in Range(snapshot[k])
        /\ fired[1] > fired[2]

\* C5: for a message that matches a transaction-keyed and a type-keyed tracker,
\* every transaction-keyed firing precedes every type-keyed firing; when a
\* type-keyed tracker starts, all transaction-keyed trackers queued for the
\* message have fired and ended; and at most one wrapped callable runs at a
\* time, the one the loop awaits.
C5_TransactionBeforeType ==
    /\ \A i, j \in DOMAIN fired : (IsTx(fired[j]) /\ ~IsTx(fired[i])) => j < i
    /\ \A i \in DOMAIN fired :
          ~IsTx(fired[i]) =>
              \A x \in Range(snapshot[1]) : x \in Range(fired) /\ ~Running(x)
    /\ Cardinality({id \in DOMAIN trackers : Running(id)}) <= 1
    /\ \A id \in DOMAIN trackers :
          Running(id) =>
              /\ loop.pc = "handler"
              /\ loop.cur = id
              /\ fired[Len(fired)] = id

\* A transaction-keyed handler that awaits has run and ended, and a type-keyed
\* tracker has fired after it for the same message.
C5_Witness ==
    \E i, j \in DOMAIN fired :
        /\ i < j
        /\ IsTx(fired[i]) /\ trackers[fired[i]].callable = "slow"
        /\ ~Running(fired[i])
        /\ ~IsTx(fired[j])

\* C6: every tracker fired for a message whose event is in the hard-error set
\* has its result slot resolved with a failure that carries the message's
\* text, and its handler has not been invoked.
C6_HardErrorResolvesWithFailure ==
    loop.res.event \in RTU_ERROR_HARD_MESSAGE_TYPES =>
        \A id \in Range(fired) :
            /\ ghost[id].invoked = 0
            /\ trackers[id].next_trigger.state = "FINISHED"
            /\ trackers[id].next_trigger.exception = loop.res.message

\* C7: a call of execute with two or more of cell_id, before_id, after_id
\* fails at once with a precondition error (the AssertionError when the
\* client is connected): nothing is sent and no tracker is registered.
C7_ExecuteRejectsTwoIds ==
    [][(/\ ncalls' = ncalls + 1
        /\ lastCall'.op = "execute"
        /\ TwoOrMore(lastCall'.args))
       => /\ lastCall'.outcome \in {"AssertionError", "ValueError"}
          /\ rtu_socket # "None" => lastCall'.outcome = "AssertionError"
          /\ sent' = sent
          /\ trackers' = trackers
          /\ registry' = registry]_vars

\* A connected client has rejected an execute call that named two ids.
C7_Witness ==
    /\ rtu_socket = "open"
    /\ lastCall.op = "execute"
    /\ TwoOrMore(lastCall.args)
    /\ lastCall.outcome = "AssertionError"

\* C8: a message that matches a tracker whose waiter has timed out does not
\* stop the message loop.
C8_StrayReplyKeepsLoopAlive ==
    (\E id \in Range(fired) : trackers[id].next_trigger.state = "CANCELLED")
        => loop.pc # "failed"

\* C9: when a request's wait times out (its Future goes from pending to
\* cancelled, which is the TimeoutError of the caller), the registry, the
\* subscriptions and every other tracker are as they were, and the tracker
\* itself changes in nothing but its Future's state.
C9_TimeoutChangesNothingElse ==
    [][\A id \in DOMAIN trackers :
          (/\ trackers[id].next_trigger.state = "PENDING"
           /\ trackers'[id].next_trigger.state = "CANCELLED")
          => /\ registry' = registry
             /\ subscriptions' = subscriptions
             /\ user' = user
             /\ loop' = loop
             /\ DOMAIN trackers' = DOMAIN trackers
             /\ \A other \in DOMAIN trackers \ {id} : trackers'[other] = trackers[other]
             /\ trackers'[id] = [trackers[id] EXCEPT !.next_trigger.state = "CANCELLED"]
      ]_vars

\* A wait has timed out: its tracker is still queued, and so is the pending
\* tracker of another call.
C9_Witness ==
    \E id, other \in DOMAIN trackers :
        /\ id # other
        /\ trackers[id].next_trigger.state = "CANCELLED" /\ Queued(id)
        /\ trackers[other].next_trigger.state = "PENDING" /\ Queued(other)

\* C10: subscriptions always contains "system"; any other channel is in it only
\* after a subscribe reply with success=true for that channel was dispatched
\* during the current connection; and while the client stays connected no
\* step takes a channel out of it.
C10_SubscriptionsGrowOnSuccess ==
    /\ []("system" \in subscriptions /\ subscriptions \ {"system"} \subseteq confirmed)
    /\ [][rtu_socket' # "None" => subscriptions \subseteq subscriptions']_vars

\* A channel has been subscribed.
C10_Witness == FileChannel \in subscriptions /\ rtu_socket = "open"

\* The request operations, all behind _requires_ws_context.
RequestOps ==
    {"send_rtu_request", "authenticate", "ping_rtu", "subscribe_channel",
     "subscribe_file", "replace_cell_contents", "execute"}

\* C11: when the message loop resolves the Future of a subscribe request with
\* its reply, the Future holds the reply as its result and no exception (the
\* waiting call returns it and does not raise); with success=true the channel
\* is in subscriptions at that moment, with success=false subscriptions is
\* what it was.
C11_SubscribeReplyIsTheResult ==
    [][\A id \in DOMAIN trackers :
          (/\ trackers[id].callable = "process_subscribe"
           /\ trackers[id].next_trigger.state = "PENDING"
           /\ trackers'[id].next_trigger.state = "FINISHED"
           /\ loop.res.event \notin RTU_ERROR_HARD_MESSAGE_TYPES)
          => /\ trackers'[id].next_trigger.result = loop.res
             /\ trackers'[id].next_trigger.exception = ""
             /\ loop.res.success => trackers[id].channel \in subscriptions'
             /\ ~loop.res.success => subscriptions' = subscriptions
      ]_vars

\* A subscribe call has got a reply with success=false as its result, and its
\* channel is not subscribed.
C11_Witness ==
    \E id \in DOMAIN trackers :
        /\ trackers[id].callable = "process_subscribe"
        /\ ghost[id].awaited
        /\ trackers[id].next_trigger.state = "FINISHED"
        /\ trackers[id].next_trigger.exception = ""
        /\ ~trackers[id].next_trigger.result.success
        /\ trackers[id].channel \notin subscriptions

\* C12: an authentication reply with success=true records the principal; one
\* with success=false fails the call with the authentication error; and a
\* principal is recorded only when some authenticate call has succeeded: after
\* a failure or a timeout none is.
C12_PrincipalOnlyAfterSuccess ==
    LET Succeeded(id) ==
            /\ trackers[id].callable = "authorized"
            /\ trackers[id].next_trigger.state = "FINISHED"
            /\ trackers[id].next_trigger.exception = ""
            /\ trackers[id].next_trigger.result.success
    IN  /\ (\E id \in DOMAIN trackers : Succeeded(id)) => user = Principal
        /\ \A id \in DOMAIN trackers :
              (/\ trackers[id].callable = "authorized"
               /\ trackers[id].next_trigger.state = "FINISHED"
               /\ trackers[id].next_trigger.exception = ""
               ) => trackers[id].next_trigger.result.success
        /\ user # NoUser => \E id \in DOMAIN trackers : Succeeded(id)

\* C13: a request operation called while rtu_socket is None (before
\* __aenter__ or after __aexit__) raises the ValueError of
\* _requires_ws_context: nothing is sent, no tracker is created, the registry
\* is what it was.
C13_DisconnectedCallsFail ==
    [][(/\ rtu_socket = "None"
        /\ ncalls' = ncalls + 1
        /\ lastCall'.op \in RequestOps)
       => /\ lastCall'.outcome = "ValueError"
          /\ sent' = sent
          /\ trackers' = trackers
          /\ registry' = registry]_vars

\* After a connection that was closed, a request operation has raised the
\* ValueError.
C13_Witness ==
    /\ rtu_socket = "None"
    /\ Len(trackers) >= 1
    /\ lastCall.op \in RequestOps
    /\ lastCall.outcome = "ValueError"

\* C14: once the message loop has ended on ConnectionClosed the client is
\* closed (rtu_socket is None), and a request operation called from then on
\* fails with a precondition error, sending nothing and registering nothing.
C14_TransportFailureCloses ==
    /\ [](loop.pc = "closed" => rtu_socket = "None")
    /\ [][(/\ loop.pc = "closed"
           /\ ncalls' = ncalls + 1
           /\ lastCall'.op \in RequestOps)
          => /\ lastCall'.outcome \in {"ValueError", "AssertionError"}
             /\ sent' = sent
             /\ trackers' = trackers]_vars

\* C15: when __aexit__ has returned, the message loop is gone, the socket is
\* None, both registries are empty and subscriptions is {"system"}; __aexit__
\* can be called again in that state, and it returns leaving the same state.
C15_CloseIsIdempotent ==
    LET Closed ==
            /\ process_task_loop = "None"
            /\ loop.pc = "none"
            /\ rtu_socket = "None"
            /\ \A k \in DOMAIN type_callbacks : type_callbacks[k] = <<>>
            /\ \A k \in DOMAIN transaction_callbacks : transaction_callbacks[k] = <<>>
            /\ subscriptions = {"system"}
    IN  lastCall.op = "__aexit__" =>
            /\ lastCall.outcome = "returned"
            /\ Closed
            /\ ENABLED Close

\* __aexit__ has returned on a connection that had a subscription and a
\* tracker still waiting in the registry.
C15_Witness ==
    /\ lastCall.op = "__aexit__"
    /\ \E id \in DOMAIN trackers :
          /\ trackers[id].callable = "process_subscribe"
          /\ trackers[id].next_trigger.state = "FINISHED"
          /\ trackers[id].next_trigger.result.success
    /\ \E id \in DOMAIN trackers : trackers[id].next_trigger.state = "PENDING"

C17_HandlerFailureIsCaptured ==
    LET id == fired[Len(fired)]
    IN  (/\ fired # <<>>
         /\ loop.res.event \notin RTU_ERROR_HARD_MESSAGE_TYPES
         /\ HandlerRaises(trackers[id].callable, loop.res))
        => /\ ghost[id].last.state = "FINISHED"
           /\ ghost[id].last.exception = HandlerException(trackers[id].callable)
           /\ trackers[id].once => trackers[id].next_trigger = ghost[id].last
           /\ loop.pc # "failed"

\* C18: a frame that is not text, or a text that parses as neither envelope,
\* is dropped: the step that receives it fires no tracker, leaves the
\* registry, the trackers, the subscriptions and the principal as they were,
\* and the message loop is at recv again.
C18_BadFrameIsDropped ==
    [][(/\ loop.pc = "recv"
        /\ ncalls' = ncalls
        /\ vars' # vars
        /\ \E k \in {"bytes", "invalid"}, m \in Messages :
              Recv([kind |-> k, body |-> m]))
       => /\ registry' = registry
          /\ trackers' = trackers
          /\ subscriptions' = subscriptions
          /\ user' = user
          /\ fired' = fired
          /\ ghost' = ghost
          /\ loop'.pc = "recv"
      ]_vars

\* The loop has skipped a frame with "continue" while a tracker that the
\* frame's body would have matched waits in the registry.
C18_Witness ==
    /\ loop.phase = "continue"
    /\ loop.pc = "recv"
    /\ rtu_socket = "open"
    /\ fired = <<>>
    /\ \E id \in DOMAIN trackers :
          /\ Queued(id)
          /\ trackers[id].next_trigger.state = "PENDING"

\* C19: a call of subscribe_file with a file identifier (a UUID) on an open
\* connection registers one new tracker, once and keyed by its transaction id
\* on the channel files/<file id>, and sends one subscribe request on that
\* channel whose from_version_id is the one the caller supplied (none when the
\* caller supplied none).
C19_SubscribeFileById ==
    [][(/\ rtu_socket = "open"
        /\ ncalls' = ncalls + 1
        /\ lastCall'.op = "subscribe_file"
        /\ lastCall'.args[1] = "UUID")
       => /\ lastCall'.outcome = "waiting"
          /\ Len(trackers') = Len(trackers) + 1
          /\ LET id == Len(trackers')
                 tracker == trackers'[id]
             IN  /\ tracker.once
                 /\ tracker.transaction_id # NoTid
                 /\ tracker.channel = files_channel(FileId)
                 /\ transaction_callbacks'[<<tracker.channel, tracker.transaction_id>>]
                        = <<id>>
          /\ Len(sent') = Len(sent) + 1
          /\ LET req == sent'[Len(sent')]
             IN  /\ req.event = "subscribe_request"
                 /\ req.channel = files_channel(FileId)
                 /\ req.from_version_id = lastCall'.args[2]
      ]_vars

\* C20: every tracker that is in the registry is in one mapping only, under
\* its own key: in transaction_callbacks[channel][transaction_id] when it was
\* registered with a transaction id (whether or not a message type was given
\* too), otherwise in type_callbacks[channel][message_type]; this holds after
\* a persistent tracker was put back as well.
C20_TrackerInOneMapping ==
    \A id \in DOMAIN trackers :
        LET tracker == trackers[id]
            InType == {k \in DOMAIN type_callbacks : id \in Range(type_callbacks[k])}
            InTx == {k \in DOMAIN transaction_callbacks :
                        id \in Range(transaction_callbacks[k])}
        IN  /\ InType = {} \/ InTx = {}
            /\ IsTx(id) =>
                  /\ InType = {}
                  /\ InTx \subseteq {<<tracker.channel, tracker.transaction_id>>}
            /\ ~IsTx(id) =>
                  /\ InTx = {}
                  /\ InType \subseteq {<<tracker.channel, tracker.message_type>>}

\* A persistent tracker registered with both a message type and a transaction
\* id has fired and is back in the bucket of its transaction id, while a
\* tracker registered by message type sits in the bucket of that type.
C20_Witness ==
    /\ \E id \in DOMAIN trackers :
          /\ ~trackers[id].once
          /\ trackers[id].message_type # NoType
          /\ IsTx(id)
          /\ ghost[id].finished >= 1
          /\ id \in Range(transaction_callbacks[<<trackers[id].channel,
                                                  trackers[id].transaction_id>>])
    /\ \E id \in DOMAIN trackers :
          /\ ~IsTx(id)
          /\ id \in Range(type_callbacks[<<trackers[id].channel,
                                          trackers[id].message_type>>])

C22_FiredWerePresentAtStart ==
    snapshot # <<>> =>
        LET present == Range(snapshot[1]) \cup Range(snapshot[2])
        IN  /\ Range(fired) \subseteq present
            /\ loop.pc = "sleep" => present \subseteq Range(fired)

====
